---- MODULE Spec2Model ----
(***************************************************************************)
(* The rock-paper-scissors transaction family of sawtooth-arcade           *)
(* (sawtooth_rps/txn_family.py): RPSTransaction.check_valid, _is_winner    *)
(* and apply, driven by a ledger that validates each transaction against   *)
(* the store and applies it when check_valid raised nothing.               *)
(*                                                                         *)
(* A game is the Python dict apply builds: a record whose DOMAIN is the    *)
(* set of keys the dict has ('Computer' and 'Results' are present only     *)
(* when the code set them).  The store is a function whose DOMAIN is the   *)
(* set of names it holds.                                                  *)
(***************************************************************************)
EXTENDS Integers, FiniteSets, Sequences, TLC

\* ---- bounds of the model ------------------------------------------------
NumIds == 3
MaxPlayers == 3

IdPool == <<"A", "B", "C", "D", "E">>

Ids == {IdPool[i] : i \in 1..NumIds}
Names == {"g1"}

\* ---- values of the transaction fields -------------------------------------
None == "<None>"

VALID_HANDS == {"ROCK", "PAPER", "SCISSORS"}
STATES == {"OPEN", "COMPLETE"}

IntVal(n) == [type |-> "int", val |-> n]
NoneVal == [type |-> "NoneType", val |-> 0]
StrVal == [type |-> "str", val |-> 0]

NameInputs == Names \cup {None, ""}
ActionInputs == {"CREATE", "SHOOT", "DELETE", None, ""}
HandInputs == VALID_HANDS \cup {None, "LIZARD"}
PlayersInputs == {IntVal(n) : n \in 0..MaxPlayers} \cup {NoneVal, StrVal}

\* RPSTransaction.__init__: the four fields read from minfo (None when the
\* key is missing) and the originator the identity layer attaches.  Every
\* CREATE and SHOOT for a game name, from every originator: a CREATE with
\* every player count and with no, a valid or an invalid hand; a SHOOT with
\* every hand and with or without a player count.  For the transactions the
\* two universal checks turn away (no name, no or an unknown action) a sample
\* of the fields those checks never read.
Creates ==
    [_name : Names, _action : {"CREATE"}, _hand : {None, "ROCK", "LIZARD"},
     _players : PlayersInputs, OriginatorID : Ids]

Shoots ==
    [_name : Names, _action : {"SHOOT"}, _hand : HandInputs,
     _players : {NoneVal, IntVal(2)}, OriginatorID : Ids]

Malformed ==
    { tx \in [_name : NameInputs, _action : ActionInputs, _hand : {None, "ROCK"},
              _players : {IntVal(2)}, OriginatorID : Ids] :
         tx._name \notin Names \/ tx._action \notin {"CREATE", "SHOOT"} }

Transactions == Creates \cup Shoots \cup Malformed

\* ---- exceptions -------------------------------------------------------------
NoError == [exc |-> "", msg |-> ""]
InvalidTransactionError(m) == [exc |-> "InvalidTransactionError", msg |-> m]
KeyError == [exc |-> "KeyError", msg |-> "InitialID"]

\* ---- check_valid ------------------------------------------------------------
\* The messages of the raise statements of check_valid.
RejectionMessages ==
    {"name not set", "action not set", "game already exists",
     "players must be a positive integer larger then 0",
     "SHOOT requires hand", "invalid hand", "no such game", "game complete",
     "all players shown their hand but game state not set to complete",
     "hand already registered", "invalid game state", "invalid action"}

\* Variant: the game is looked up before the hand is checked.
check_valid_shoot_gameFirst(tx, s) ==
    IF tx._name \notin DOMAIN s THEN InvalidTransactionError("no such game")
    ELSE IF tx._hand = None THEN InvalidTransactionError("SHOOT requires hand")
    ELSE IF tx._hand \notin VALID_HANDS THEN InvalidTransactionError("invalid hand")
    ELSE LET players == s[tx._name].Players
             state == s[tx._name].State
             hands == s[tx._name].Hands
         IN IF state = "COMPLETE" THEN InvalidTransactionError("game complete")
            ELSE IF Cardinality(DOMAIN hands) >= players
                 THEN InvalidTransactionError("all players shown their hand but game state not set to complete")
            ELSE IF state = "OPEN"
                 THEN IF tx.OriginatorID \in DOMAIN hands
                      THEN InvalidTransactionError("hand already registered")
                      ELSE NoError
            ELSE InvalidTransactionError("invalid game state")

\* Variant: the 'game complete' check is missing.
check_valid_shoot_noComplete(tx, s) ==
    IF tx._hand = None THEN InvalidTransactionError("SHOOT requires hand")
    ELSE IF tx._hand \notin VALID_HANDS THEN InvalidTransactionError("invalid hand")
    ELSE IF tx._name \notin DOMAIN s THEN InvalidTransactionError("no such game")
    ELSE LET players == s[tx._name].Players
             state == s[tx._name].State
             hands == s[tx._name].Hands
         IN IF Cardinality(DOMAIN hands) >= players
                 THEN InvalidTransactionError("all players shown their hand but game state not set to complete")
            ELSE IF state = "OPEN"
                 THEN IF tx.OriginatorID \in DOMAIN hands
                      THEN InvalidTransactionError("hand already registered")
                      ELSE NoError
            ELSE InvalidTransactionError("invalid game state")

\* Variant: the hand count is not compared with the player count.
check_valid_shoot_noCount(tx, s) ==
    IF tx._hand = None THEN InvalidTransactionError("SHOOT requires hand")
    ELSE IF tx._hand \notin VALID_HANDS THEN InvalidTransactionError("invalid hand")
    ELSE IF tx._name \notin DOMAIN s THEN InvalidTransactionError("no such game")
    ELSE LET state == s[tx._name].State
             hands == s[tx._name].Hands
         IN IF state = "COMPLETE" THEN InvalidTransactionError("game complete")
            ELSE IF state = "OPEN"
                 THEN IF tx.OriginatorID \in DOMAIN hands
                      THEN InvalidTransactionError("hand already registered")
                      ELSE NoError
            ELSE InvalidTransactionError("invalid game state")

\* Variant: the checks on the stored game (lines 105-118) are missing.
check_valid_shoot_noState(tx, s) ==
    IF tx._hand = None THEN InvalidTransactionError("SHOOT requires hand")
    ELSE IF tx._hand \notin VALID_HANDS THEN InvalidTransactionError("invalid hand")
    ELSE IF tx._name \notin DOMAIN s THEN InvalidTransactionError("no such game")
    ELSE NoError

check_valid_shoot(tx, s) ==
    IF tx._hand = None THEN InvalidTransactionError("SHOOT requires hand")
    ELSE IF tx._hand \notin VALID_HANDS THEN InvalidTransactionError("invalid hand")
    ELSE IF tx._name \notin DOMAIN s THEN InvalidTransactionError("no such game")
    ELSE LET players == s[tx._name].Players
             state == s[tx._name].State
             hands == s[tx._name].Hands
         IN IF state = "COMPLETE" THEN InvalidTransactionError("game complete")
            ELSE IF Cardinality(DOMAIN hands) >= players
                 THEN InvalidTransactionError("all players shown their hand but game state not set to complete")
            ELSE IF state = "OPEN"
                 THEN IF tx.OriginatorID \in DOMAIN hands
                      THEN InvalidTransactionError("hand already registered")
                      ELSE NoError
            ELSE InvalidTransactionError("invalid game state")

check_valid_create(tx, s) ==
    IF tx._name \in DOMAIN s THEN InvalidTransactionError("game already exists")
    ELSE IF tx._players.type # "int" \/ ~(tx._players.val > 0)
         THEN InvalidTransactionError("players must be a positive integer larger then 0")
    ELSE NoError

check_valid(tx, s) ==
    IF tx._name = None \/ tx._name = "" THEN InvalidTransactionError("name not set")
    ELSE IF tx._action = None \/ tx._action = "" THEN InvalidTransactionError("action not set")
    ELSE IF tx._action = "CREATE" THEN check_valid_create(tx, s)
    ELSE IF tx._action = "SHOOT" THEN check_valid_shoot(tx, s)
    ELSE InvalidTransactionError("invalid action")

\* ---- _is_winner -------------------------------------------------------------
\* Variant: the results of the rows ROCK/PAPER and PAPER/ROCK are exchanged.
resolutions_exchanged ==
    << <<"ROCK", "ROCK", "TIE">>,
       <<"ROCK", "PAPER", "WIN">>,
       <<"ROCK", "SCISSORS", "WIN">>,
       <<"PAPER", "PAPER", "TIE">>,
       <<"PAPER", "ROCK", "LOSE">>,
       <<"PAPER", "SCISSORS", "LOSE">>,
       <<"SCISSORS", "SCISSORS", "TIE">>,
       <<"SCISSORS", "PAPER", "WIN">>,
       <<"SCISSORS", "ROCK", "LOSE">> >>

\* Variant: the row SCISSORS/ROCK says WIN.
resolutions_oneRow ==
    << <<"ROCK", "ROCK", "TIE">>,
       <<"ROCK", "PAPER", "LOSE">>,
       <<"ROCK", "SCISSORS", "WIN">>,
       <<"PAPER", "PAPER", "TIE">>,
       <<"PAPER", "ROCK", "WIN">>,
       <<"PAPER", "SCISSORS", "LOSE">>,
       <<"SCISSORS", "SCISSORS", "TIE">>,
       <<"SCISSORS", "PAPER", "WIN">>,
       <<"SCISSORS", "ROCK", "WIN">> >>

resolutions ==
    << <<"ROCK", "ROCK", "TIE">>,
       <<"ROCK", "PAPER", "LOSE">>,
       <<"ROCK", "SCISSORS", "WIN">>,
       <<"PAPER", "PAPER", "TIE">>,
       <<"PAPER", "ROCK", "WIN">>,
       <<"PAPER", "SCISSORS", "LOSE">>,
       <<"SCISSORS", "SCISSORS", "TIE">>,
       <<"SCISSORS", "PAPER", "WIN">>,
       <<"SCISSORS", "ROCK", "LOSE">> >>

NoResolution == "<raise>"

\* The first matching row of the table; falling off the loop raises.
_is_winner(hand_a, hand_b) ==
    LET hits == {i \in DOMAIN resolutions :
                    resolutions[i][1] = hand_a /\ resolutions[i][2] = hand_b}
    IN IF hits = {} THEN NoResolution
       ELSE resolutions[CHOOSE i \in hits : \A j \in hits : i <= j][3]

\* ---- apply ------------------------------------------------------------------
\* Variant: a requested player count of 1 is stored as it is.
NewGame_noNormalise(tx) ==
    IF tx._players = IntVal(1)
    THEN [State |-> "OPEN", Hands |-> <<>>, Players |-> 1,
          InitialID |-> tx.OriginatorID, Computer |-> TRUE]
    ELSE [State |-> "OPEN", Hands |-> <<>>, Players |-> tx._players.val,
          InitialID |-> tx.OriginatorID]

\* Variant: the branch for a requested player count of 1 is missing.
NewGame_noComputerBranch(tx) ==
    [State |-> "OPEN", Hands |-> <<>>, Players |-> tx._players.val,
     InitialID |-> tx.OriginatorID]

\* The dict built for a name that is not in the store.
NewGame(tx) ==
    IF tx._players = IntVal(1)
    THEN [State |-> "OPEN", Hands |-> <<>>, Players |-> 2,
          InitialID |-> tx.OriginatorID, Computer |-> TRUE]
    ELSE [State |-> "OPEN", Hands |-> <<>>, Players |-> tx._players.val,
          InitialID |-> tx.OriginatorID]

\* What apply leaves behind: the store and the exception it raised, if any.
Outcome(s, e) == [store |-> s, error |-> e]

\* Variant: the loop does not skip initial_id.
Completed_withInitial(game) ==
    LET initial_id == game.InitialID
        hand_a == game.Hands[initial_id]
        results == [player \in DOMAIN game.Hands |->
                        _is_winner(hand_a, game.Hands[player])]
    IN [k \in DOMAIN game \cup {"Results"} |->
            IF k = "Results" THEN results
            ELSE IF k = "State" THEN "COMPLETE"
            ELSE game[k]]

\* Variant: the state written is not one of STATES.
Completed_otherState(game) ==
    LET initial_id == game.InitialID
        hand_a == game.Hands[initial_id]
        results == [player \in DOMAIN game.Hands \ {initial_id} |->
                        _is_winner(hand_a, game.Hands[player])]
    IN [k \in DOMAIN game \cup {"Results"} |->
            IF k = "Results" THEN results
            ELSE IF k = "State" THEN "COMPLETED"
            ELSE game[k]]

\* Variant: the two hands are passed to _is_winner the other way round.
Completed_swapped(game) ==
    LET initial_id == game.InitialID
        hand_a == game.Hands[initial_id]
        results == [player \in DOMAIN game.Hands \ {initial_id} |->
                        _is_winner(game.Hands[player], hand_a)]
    IN [k \in DOMAIN game \cup {"Results"} |->
            IF k = "Results" THEN results
            ELSE IF k = "State" THEN "COMPLETE"
            ELSE game[k]]

\* game['Results'] = results; game['State'] = 'COMPLETE'
Completed(game) ==
    LET initial_id == game.InitialID
        hand_a == game.Hands[initial_id]
        results == [player \in DOMAIN game.Hands \ {initial_id} |->
                        _is_winner(hand_a, game.Hands[player])]
    IN [k \in DOMAIN game \cup {"Results"} |->
            IF k = "Results" THEN results
            ELSE IF k = "State" THEN "COMPLETE"
            ELSE game[k]]

\* Variant: the store is replaced by one holding the written record only.
Written_only(s, name, game) == [n \in {name} |-> game]

\* store[self._name] = game
Written(s, name, game) ==
    [n \in DOMAIN s \cup {name} |-> IF n = name THEN game ELSE s[n]]

\* Variant: the hands are replaced by a dict holding the new hand only.
WithHand_reset(game, tx) ==
    [game EXCEPT !.Hands = [p \in {tx.OriginatorID} |-> tx._hand]]

\* game['Hands'][self.OriginatorID] = self._hand
WithHand(game, tx) ==
    [game EXCEPT !.Hands =
        [p \in DOMAIN game.Hands \cup {tx.OriginatorID} |->
            IF p = tx.OriginatorID THEN tx._hand ELSE game.Hands[p]]]

\* apply(store) on the store s.  `shared` tells whether the dict the store
\* hands out for a name is the stored object itself (a plain mapping) or a
\* private deep copy: game = store[name].copy() is a shallow copy, so with a
\* shared object game['Hands'] is the stored record's own Hands dict and the
\* insertion at line 172 is visible in the store before line 188 runs.
apply(tx, s, shared) ==
    LET exists == tx._name \in DOMAIN s
    IN IF ~exists /\ tx._hand # None
       THEN Outcome(s, InvalidTransactionError(
                "Hand to be played without a game registered (should not happen)"))
       ELSE
       LET game0 == IF exists THEN s[tx._name] ELSE NewGame(tx)
       IN IF tx._hand # None /\ tx.OriginatorID \in DOMAIN game0.Hands
          THEN Outcome(s, InvalidTransactionError("hand already registered"))
          ELSE IF tx._hand # None /\ tx._hand \notin VALID_HANDS
          THEN Outcome(s, InvalidTransactionError("invalid hand"))
          ELSE
          LET game == IF tx._hand # None THEN WithHand(game0, tx) ELSE game0
              inplace == IF exists /\ shared
                         THEN [s EXCEPT ![tx._name].Hands = game.Hands]
                         ELSE s
              nr_hands == Cardinality(DOMAIN game.Hands)
          IN IF game.State # "OPEN" /\ nr_hands < game.Players
             THEN Outcome(inplace, InvalidTransactionError(
                      "state not open while missing hands"))
             ELSE IF nr_hands = game.Players
             THEN IF game.InitialID \notin DOMAIN game.Hands
                  THEN Outcome(inplace, KeyError)
                  ELSE IF \E p \in DOMAIN game.Hands \ {game.InitialID} :
                             _is_winner(game.Hands[game.InitialID], game.Hands[p])
                                 = NoResolution
                  THEN Outcome(inplace, InvalidTransactionError("no resolution found"))
                  ELSE Outcome(Written(inplace, tx._name, Completed(game)), NoError)
             ELSE Outcome(Written(inplace, tx._name, game), NoError)

\* ---- the ledger: validate, then apply ------------------------------------------
VARIABLES store, shared, last

vars == <<store, shared, last>>

\* last: what became of the transaction processed last.
Report(stage, e) == [stage |-> stage, error |-> e]

Init ==
    /\ store = <<>>
    /\ shared \in BOOLEAN
    /\ last = Report("none", NoError)

\* Variant: the recorded hand is looked up with pop instead of get.
Rejected_pops(tx) ==
    LET e == check_valid(tx, store)
    IN /\ e # NoError
       /\ last' = Report("check_valid", e)
       /\ store' = IF e = InvalidTransactionError("hand already registered")
                   THEN [store EXCEPT ![tx._name].Hands =
                            [p \in DOMAIN @ \ {tx.OriginatorID} |-> @[p]]]
                   ELSE store
       /\ UNCHANGED shared

\* check_valid raises: the transaction is dropped.
Rejected(tx) ==
    LET e == check_valid(tx, store)
    IN /\ e # NoError
       /\ last' = Report("check_valid", e)
       /\ UNCHANGED <<store, shared>>

\* check_valid returns and apply runs to its last line.
Applied(tx) ==
    /\ check_valid(tx, store) = NoError
    /\ LET out == apply(tx, store, shared)
       IN /\ out.error = NoError
          /\ store' = out.store
          /\ last' = Report("apply", NoError)
    /\ UNCHANGED shared

\* check_valid returns and apply raises: what apply did to the store's own
\* objects before the raise stays done.
Aborted(tx) ==
    /\ check_valid(tx, store) = NoError
    /\ LET out == apply(tx, store, shared)
       IN /\ out.error # NoError
          /\ store' = out.store
          /\ last' = Report("apply", out.error)
    /\ UNCHANGED shared

Process(tx) == Rejected(tx) \/ Applied(tx) \/ Aborted(tx)

Next ==
    \/ \E tx \in Transactions : Rejected(tx)
    \/ \E tx \in Transactions : Applied(tx)
    \/ \E tx \in Transactions : Aborted(tx)

Spec == Init /\ [][Next]_vars

\* ---- shorthands for the properties ----------------------------------------------
Tx(name, action, hand, players, originator) ==
    [_name |-> name, _action |-> action, _hand |-> hand,
     _players |-> players, OriginatorID |-> originator]

NrHands(game) == Cardinality(DOMAIN game.Hands)

\* ---- C1 ---------------------------------------------------------------------------
\* C1: in every store state the ledger reaches by check_valid followed, when
\* accepted, by apply, no game has as many hands as players while its state
\* is still OPEN.
C1_NoFullOpenGame ==
    \A n \in DOMAIN store :
        ~(NrHands(store[n]) = store[n].Players /\ store[n].State = "OPEN")

\* ---- C2 ---------------------------------------------------------------------------
\* C2: a COMPLETE game has exactly `players` hands, and its results have one
\* entry for every key of hands other than initial_id and no other entry
\* (|hands| - 1 entries).
C2_CompleteHasAllResults ==
    \A n \in DOMAIN store :
        store[n].State = "COMPLETE" =>
            /\ NrHands(store[n]) = store[n].Players
            /\ "Results" \in DOMAIN store[n]
            /\ DOMAIN store[n].Results = DOMAIN store[n].Hands \ {store[n].InitialID}
            /\ Cardinality(DOMAIN store[n].Results) = NrHands(store[n]) - 1

C2_Witness ==
    /\ last = Report("apply", NoError)
    /\ \E n \in DOMAIN store :
          /\ store[n].State = "COMPLETE"
          /\ store[n].Players = 3
          /\ Cardinality(DOMAIN store[n].Results) = 2

\* ---- C3 ---------------------------------------------------------------------------
\* C3: whenever apply raises, the store (the hands of the existing record
\* included) is what it was before apply was called.
C3_AbortLeavesStore ==
    [][\A tx \in Transactions : Aborted(tx) => store' = store]_vars

\* ---- C4 ---------------------------------------------------------------------------
Tx1 == Tx("g1", "CREATE", None, IntVal(2), "A")
Tx3 == Tx("g1", "SHOOT", "ROCK", NoneVal, "A")
Tx4 == Tx("g1", "SHOOT", "SCISSORS", NoneVal, "B")
Tx5 == Tx("g1", "SHOOT", "PAPER", NoneVal, "A")

\* The store after scenario steps 1, 3 and 4.
After134 ==
    apply(Tx4, apply(Tx3, apply(Tx1, <<>>, shared).store, shared).store, shared).store

AtAfter134 ==
    /\ DOMAIN store = {"g1"}
    /\ store["g1"].State = "COMPLETE"
    /\ store["g1"].InitialID = "A"
    /\ store["g1"].Players = 2
    /\ store = After134

\* C4 as stated: after steps 1, 3 and 4 the second SHOOT by A is rejected by
\* check_valid as 'hand already registered' and the store is unchanged.
C4_RejectedAsDuplicateHand ==
    [][(AtAfter134 /\ Process(Tx5)) =>
          /\ last' = Report("check_valid", InvalidTransactionError("hand already registered"))
          /\ store' = store]_vars

\* C4 amended: after steps 1, 3 and 4 the game is COMPLETE, and the second
\* SHOOT by A is rejected by check_valid as 'game complete'; the store is
\* unchanged.
C4_RejectedAsGameComplete ==
    [][(AtAfter134 /\ Process(Tx5)) =>
          /\ last' = Report("check_valid", InvalidTransactionError("game complete"))
          /\ store' = store]_vars

C4_Witness ==
    /\ store = After134
    /\ store["g1"].State = "COMPLETE"
    /\ store["g1"].Hands = [p \in {"A", "B"} |-> IF p = "A" THEN "ROCK" ELSE "SCISSORS"]
    /\ last = Report("check_valid", InvalidTransactionError("game complete"))

\* ---- C5 ---------------------------------------------------------------------------
\* C5: every CREATE that check_valid accepts leaves, once processed, a record
\* under its name with state OPEN, no hands and the originator as initial_id.
C5_AcceptedCreateLeavesOpenGame ==
    [][\A tx \in Transactions :
          (tx._action = "CREATE" /\ check_valid(tx, store) = NoError /\ Process(tx)) =>
              /\ tx._name \in DOMAIN store'
              /\ store'[tx._name].State = "OPEN"
              /\ store'[tx._name].Hands = <<>>
              /\ store'[tx._name].InitialID = tx.OriginatorID]_vars

C7_HandsAtMostPlayers ==
    \A n \in DOMAIN store : NrHands(store[n]) <= store[n].Players

C7_Witness ==
    /\ last.stage = "apply"
    /\ \E n \in DOMAIN store :
          NrHands(store[n]) = store[n].Players /\ store[n].Players = MaxPlayers

\* ---- C8 ---------------------------------------------------------------------------
\* C8: across every step, every game stays in the store and every identity
\* with an entry in its hands keeps that entry with the same hand (hands is a
\* mapping, so an identity is a key at most once).
C8_HandsOnlyGrow ==
    [][\A n \in DOMAIN store :
          /\ n \in DOMAIN store'
          /\ \A p \in DOMAIN store[n].Hands :
                /\ p \in DOMAIN store'[n].Hands
                /\ store'[n].Hands[p] = store[n].Hands[p]]_vars

C8_Witness ==
    /\ last = Report("apply", NoError)
    /\ \E n \in DOMAIN store :
          /\ store[n].State = "OPEN"
          /\ NrHands(store[n]) = 2
          /\ \E p, q \in DOMAIN store[n].Hands : store[n].Hands[p] # store[n].Hands[q]

\* ---- C9 ---------------------------------------------------------------------------
\* C9: the only change a step makes to a game's state is OPEN -> COMPLETE; a
\* COMPLETE game stays in the store and stays COMPLETE, so the change happens
\* at most once and is never undone.
C9_StateOnlyOpenToComplete ==
    [][\A n \in DOMAIN store :
          /\ n \in DOMAIN store'
          /\ store[n].State = "COMPLETE" => store'[n].State = "COMPLETE"
          /\ store'[n].State # store[n].State =>
                store[n].State = "OPEN" /\ store'[n].State = "COMPLETE"]_vars

C9_Witness ==
    /\ last = Report("check_valid", InvalidTransactionError("game complete"))
    /\ \E n \in DOMAIN store :
          store[n].State = "COMPLETE" /\ store[n].Players = MaxPlayers

\* ---- C10 --------------------------------------------------------------------------
\* C10: once a game is COMPLETE no step changes any key of its record.
C10_CompleteIsFrozen ==
    [][\A n \in DOMAIN store :
          store[n].State = "COMPLETE" =>
              n \in DOMAIN store' /\ store'[n] = store[n]]_vars

C10_Witness ==
    /\ last = Report("check_valid", InvalidTransactionError("game already exists"))
    /\ \E n \in DOMAIN store :
          store[n].State = "COMPLETE" /\ "Computer" \in DOMAIN store[n]

\* ---- C11 --------------------------------------------------------------------------
\* C11: a step in which check_valid rejects the transaction leaves the whole
\* store as it was (check_valid only reads the store and a rejected
\* transaction is not applied); in particular a CREATE for a name the store
\* holds is rejected as 'game already exists' and a SHOOT with a valid hand
\* for a name it does not hold as 'no such game'.
C11_Reasons ==
    /\ \A tx \in Creates :
          tx._name \in DOMAIN store =>
              check_valid(tx, store) = InvalidTransactionError("game already exists")
    /\ \A tx \in Shoots :
          (tx._hand \in VALID_HANDS /\ tx._name \notin DOMAIN store) =>
              check_valid(tx, store) = InvalidTransactionError("no such game")

C11_RejectionLeavesStore ==
    /\ []C11_Reasons
    /\ [][last'.stage = "check_valid" => store' = store]_vars

C11_Witness ==
    /\ last = Report("check_valid", InvalidTransactionError("game already exists"))
    /\ \E n \in DOMAIN store : store[n].State = "OPEN" /\ NrHands(store[n]) = 1

\* ---- C12 --------------------------------------------------------------------------
\* C12: in a COMPLETE game results[q] is _is_winner(hands[initial_id],
\* hands[q]) for every participant q other than initial_id: the result is
\* stated from the creator's hand (after scenario steps 1, 3 and 4, with A
\* ROCK and B SCISSORS, results is {B: WIN}).
C12_ResultsFromCreatorsHand ==
    /\ \A n \in DOMAIN store :
          store[n].State = "COMPLETE" =>
              \A q \in DOMAIN store[n].Hands \ {store[n].InitialID} :
                  /\ q \in DOMAIN store[n].Results
                  /\ store[n].Results[q] =
                        _is_winner(store[n].Hands[store[n].InitialID], store[n].Hands[q])
    /\ AtAfter134 => store["g1"].Results = [q \in {"B"} |-> "WIN"]

C12_Witness ==
    /\ last = Report("apply", NoError)
    /\ \E n \in DOMAIN store :
          /\ store[n].State = "COMPLETE"
          /\ \E p, q \in DOMAIN store[n].Results :
                store[n].Results[p] = "WIN" /\ store[n].Results[q] = "LOSE"

\* ---- one call on any store --------------------------------------------------------
\* check_valid and apply as functions of the transaction and of whatever the
\* store holds: the store belongs to the ledger, and the branches of both
\* methods that the validate-then-apply runs of Spec never take ('invalid
\* game state', 'no resolution found', 'state not open while missing hands',
\* apply's own 'hand already registered' and 'invalid hand') are the ones
\* written for a record this family did not leave there.  A behaviour of
\* SpecAny is one store, drawn from AnyStores, and one call on it.
AnyIds == {"A", "B"}
AnyHands == VALID_HANDS \cup {"LIZARD"}
AnyStates == STATES \cup {"CLOSED"}

AnyGames ==
    { [State |-> st, Hands |-> h, Players |-> n, InitialID |-> i] :
        st \in AnyStates, n \in {1, 2, 3}, i \in AnyIds,
        h \in UNION {[D -> AnyHands] : D \in SUBSET AnyIds} }

AnyStores == {<<>>} \cup {[n \in {"g1"} |-> g] : g \in AnyGames}

InitAny ==
    /\ store \in AnyStores
    /\ shared \in BOOLEAN
    /\ last = Report("none", NoError)

\* check_valid(store) alone: what it raises, or NoError when it returns.
Validate(tx) ==
    /\ last.stage = "none"
    /\ last' = Report("check_valid", check_valid(tx, store))
    /\ UNCHANGED <<store, shared>>

\* apply(store) alone, whatever check_valid would have said.  A new game's
\* Players is the transaction's value as it is; the values that are no
\* integers are left out, since lines 175-177 would compare them with the
\* hand count.
ApplyUnchecked(tx) ==
    /\ last.stage = "none"
    /\ tx._name \in DOMAIN store \/ tx._hand # None \/ tx._players.type = "int"
    /\ LET out == apply(tx, store, shared)
       IN /\ store' = out.store
          /\ last' = Report("apply", out.error)
    /\ UNCHANGED shared

NextAny ==
    \/ \E tx \in Transactions : Validate(tx)
    \/ \E tx \in Transactions : ApplyUnchecked(tx)

SpecAny == InitAny /\ [][NextAny]_vars

\* ---- C13 --------------------------------------------------------------------------
\* The table of the specification, from hand_a's side.
Reference(hand_a, hand_b) ==
    IF hand_a = hand_b THEN "TIE"
    ELSE IF <<hand_a, hand_b>> \in
              {<<"ROCK", "SCISSORS">>, <<"PAPER", "ROCK">>, <<"SCISSORS", "PAPER">>}
         THEN "WIN"
    ELSE "LOSE"

\* C13: for every ordered pair of valid hands a store holds (all nine occur),
\* _is_winner returns TIE for equal hands, WIN for (ROCK,SCISSORS),
\* (PAPER,ROCK), (SCISSORS,PAPER) and LOSE for the three reversed pairs, and
\* the results apply writes are those values.
C13_IsWinnerIsTheTable ==
    \A n \in DOMAIN store :
        /\ \A p, q \in DOMAIN store[n].Hands :
              (store[n].Hands[p] \in VALID_HANDS /\ store[n].Hands[q] \in VALID_HANDS) =>
                  _is_winner(store[n].Hands[p], store[n].Hands[q])
                      = Reference(store[n].Hands[p], store[n].Hands[q])
        /\ "Results" \in DOMAIN store[n] =>
              \A q \in DOMAIN store[n].Results :
                  store[n].Results[q]
                      = Reference(store[n].Hands[store[n].InitialID], store[n].Hands[q])

C13_Witness ==
    /\ last = Report("apply", NoError)
    /\ \E n \in DOMAIN store :
          /\ "Results" \in DOMAIN store[n]
          /\ \E q \in DOMAIN store[n].Results :
                /\ store[n].Results[q] = "LOSE"
                /\ store[n].Hands[q] = "ROCK"
                /\ store[n].Hands[store[n].InitialID] = "SCISSORS"

\* ---- C14 --------------------------------------------------------------------------
\* C14: for every two valid hands a and b a store holds, _is_winner(a, b) and
\* _is_winner(b, a) are WIN and LOSE, one each, when a # b, and both TIE when
\* a = b.
C14_IsWinnerInverse ==
    \A n \in DOMAIN store :
        \A p, q \in DOMAIN store[n].Hands :
            LET a == store[n].Hands[p]
                b == store[n].Hands[q]
            IN (a \in VALID_HANDS /\ b \in VALID_HANDS) =>
                  IF a # b
                  THEN {_is_winner(a, b), _is_winner(b, a)} = {"WIN", "LOSE"}
                  ELSE _is_winner(a, b) = "TIE" /\ _is_winner(b, a) = "TIE"

C14_Witness ==
    /\ last = Report("apply", NoError)
    /\ \E n \in DOMAIN store :
          /\ store[n].State = "COMPLETE"
          /\ "Results" \in DOMAIN store[n]
          /\ \E q \in DOMAIN store[n].Results :
                /\ store[n].Results[q] = "WIN"
                /\ _is_winner(store[n].Hands[q], store[n].Hands[store[n].InitialID]) = "LOSE"

\* ---- C15 --------------------------------------------------------------------------
\* What check_valid raises when it rejects a transaction.
RejectionErrors == {InvalidTransactionError(m) : m \in RejectionMessages}

\* The errors apply raises for the four violations the claim names.
InvariantViolations ==
    {InvalidTransactionError(m) : m \in
        {"no resolution found",
         "Hand to be played without a game registered (should not happen)",
         "hand already registered",
         "state not open while missing hands"}}

\* C15: the error apply raises for an internal invariant violation (a pair
\* outside the table, a hand without a game, a hand already registered, a
\* state that is not OPEN with hands missing) is no error check_valid raises
\* for a rejection: the caller can tell the two outcomes apart.
C15_FatalIsNoRejection ==
    (last.stage = "apply" /\ last.error \in InvariantViolations) =>
        last.error \notin RejectionErrors

\* ---- C19 --------------------------------------------------------------------------
\* The reasons of the specification for the messages check_valid raises.
ReasonOf(e) ==
    CASE e = NoError -> "Ok"
      [] e.msg = "name not set" -> "MissingField"
      [] e.msg = "action not set" -> "MissingField"
      [] e.msg = "invalid action" -> "UnknownAction"
      [] e.msg = "game already exists" -> "DuplicateGame"
      [] e.msg = "players must be a positive integer larger then 0" -> "InvalidPlayerCount"
      [] e.msg = "SHOOT requires hand" -> "MissingHand"
      [] e.msg = "invalid hand" -> "InvalidHand"
      [] e.msg = "no such game" -> "UnknownGame"
      [] e.msg = "game complete" -> "GameComplete"
      [] e.msg = "all players shown their hand but game state not set to complete"
            -> "InconsistentState"
      [] e.msg = "hand already registered" -> "DuplicateHandSubmission"
      [] e.msg = "invalid game state" -> "InconsistentState"

\* The first failing check of a SHOOT, in the order of the specification.
FirstFailingCheck(tx, s) ==
    IF tx._hand = None THEN "MissingHand"
    ELSE IF tx._hand \notin VALID_HANDS THEN "InvalidHand"
    ELSE IF tx._name \notin DOMAIN s THEN "UnknownGame"
    ELSE IF s[tx._name].State = "COMPLETE" THEN "GameComplete"
    ELSE IF NrHands(s[tx._name]) >= s[tx._name].Players THEN "InconsistentState"
    ELSE IF s[tx._name].State = "OPEN" /\ tx.OriginatorID \in DOMAIN s[tx._name].Hands
         THEN "DuplicateHandSubmission"
    ELSE IF s[tx._name].State # "OPEN" THEN "InconsistentState"
    ELSE "Ok"

\* C19: for every SHOOT and every store, check_valid reports the first failing
\* check in the order MissingHand, InvalidHand, UnknownGame, GameComplete,
\* InconsistentState, DuplicateHandSubmission; an invalid hand for an unknown
\* game is InvalidHand, and a state that is neither OPEN nor COMPLETE with
\* fewer hands than players is InconsistentState.
C19_FirstFailingCheck ==
    \A tx \in Shoots :
        /\ ReasonOf(check_valid(tx, store)) = FirstFailingCheck(tx, store)
        /\ (tx._hand = "LIZARD" /\ tx._name \notin DOMAIN store) =>
              ReasonOf(check_valid(tx, store)) = "InvalidHand"
        /\ (/\ tx._hand \in VALID_HANDS
            /\ tx._name \in DOMAIN store
            /\ store[tx._name].State \notin STATES
            /\ NrHands(store[tx._name]) < store[tx._name].Players) =>
              ReasonOf(check_valid(tx, store)) = "InconsistentState"

C19_Witness ==
    /\ last = Report("check_valid", InvalidTransactionError("invalid game state"))
    /\ \E n \in DOMAIN store :
          store[n].State = "CLOSED" /\ NrHands(store[n]) < store[n].Players

\* ---- C16 --------------------------------------------------------------------------
C16_PlayersAtLeastTwo == \A n \in DOMAIN store : store[n].Players >= 2

\* C16: every game in a reachable store has players >= 2, and no step (a
\* further CREATE on the name included) changes the players or the
\* initial_id of a game the store holds.
C16_PlayersAndCreatorFixed ==
    /\ []C16_PlayersAtLeastTwo
    /\ [][\A n \in DOMAIN store :
             /\ n \in DOMAIN store'
             /\ store'[n].Players = store[n].Players
             /\ store'[n].InitialID = store[n].InitialID]_vars

C16_Witness ==
    /\ last = Report("check_valid", InvalidTransactionError("game already exists"))
    /\ \E n \in DOMAIN store :
          /\ store[n].Players = 2
          /\ "Computer" \in DOMAIN store[n]
          /\ store[n].Hands = <<>>

\* ---- C17 --------------------------------------------------------------------------
\* C17: in every reachable store, every transaction check_valid accepts is
\* applied by apply, on that store, without an error.
C17_AcceptedApplies ==
    \A tx \in Transactions :
        check_valid(tx, store) = NoError => apply(tx, store, shared).error = NoError

\* ---- C18 --------------------------------------------------------------------------
\* C18: when check_valid accepts a SHOOT with a valid hand from an originator
\* who is the last one missing (the game holds players - 1 hands of earlier
\* shooters), the game is COMPLETE once the transaction is processed.
C18_LastShooterCompletes ==
    [][\A tx \in Shoots :
          (/\ tx._name \in DOMAIN store
           /\ NrHands(store[tx._name]) + 1 = store[tx._name].Players
           /\ check_valid(tx, store) = NoError
           /\ Process(tx)) =>
              store'[tx._name].State = "COMPLETE"]_vars

\* ---- several games in the store ---------------------------------------------------
\* The same processing as Spec, on two game names and a smaller alphabet of
\* transactions, so that the store holds more than one record.
GameNames == {"g1", "g2"}
GameIds == {"A", "B"}

GameTransactions ==
    { Tx(n, a, h, p, o) :
        n \in GameNames, a \in {"CREATE", "SHOOT"}, h \in {None, "ROCK", "PAPER"},
        p \in {NoneVal, IntVal(1), IntVal(2)}, o \in GameIds }

NextGames ==
    \/ \E tx \in GameTransactions : Rejected(tx)
    \/ \E tx \in GameTransactions : Applied(tx)
    \/ \E tx \in GameTransactions : Aborted(tx)

SpecGames == Init /\ [][NextGames]_vars

\* ---- C20 --------------------------------------------------------------------------
\* C20: processing a transaction for the game `name` changes at most the
\* record stored under `name`; every other record, its hands included, is
\* what it was, no entry is deleted and no other entry appears.  (A step
\* that leaves the store as it was changes no record at all.)
C20_OnlyNamedRecordChanges ==
    [][store' # store =>
          \A tx \in GameTransactions :
             Process(tx) =>
                /\ DOMAIN store \subseteq DOMAIN store'
                /\ DOMAIN store' \subseteq DOMAIN store \cup {tx._name}
                /\ \A n \in DOMAIN store \ {tx._name} : store'[n] = store[n]]_vars

C20_Witness ==
    /\ last = Report("apply", NoError)
    /\ DOMAIN store = GameNames
    /\ store["g1"].State = "COMPLETE"
    /\ store["g2"].State = "OPEN"
    /\ NrHands(store["g2"]) = 1

====
